---- MODULE Spec2Model ----
(***************************************************************************)
(* Clean Spark Spread dashboard (css_calculator.py).                       *)
(*                                                                         *)
(* The script is executed top to bottom once when the page is opened and   *)
(* once more after every widget change.  One execution reads the CSV file, *)
(* filters it by calendar date, computes the CSS column on the filtered    *)
(* copy, draws the chart and shows the two averages.                       *)
(*                                                                         *)
(* Numbers are exact rationals [n, d] in lowest terms with d > 0; the      *)
(* float NaN of pandas is the value with d = 0.  The rounding error of     *)
(* IEEE-754 doubles is not part of the model.                              *)
(***************************************************************************)
EXTENDS Integers, Sequences, FiniteSets

VARIABLES
    csv,                \* content of data/unified_energy_dataset.csv
    df,                 \* module-level dataframe after the last execution
    country,            \* selectbox "Select Power Market (Country)"
    gas_index,          \* selectbox "Select Gas Index"
    efficiency,         \* slider "Efficiency (%)" / 100
    emission_factor_th, \* slider "Emission Factor"
    variable_cost,      \* number_input "Variable Cost"
    start_date,         \* date_input, first date
    end_date,           \* date_input, second date
    df_filtered,        \* the filtered copy, with its CSS column
    error,              \* exception that ended the last execution, or "none"
    fig,                \* the three traces of the chart
    avg_css,            \* what is shown under "Average CSS"
    peak_css,           \* what is shown under "Average Peak CSS"
    memo,               \* history: one run's widget values and what it showed
    rerun               \* TRUE once a widget change has run the script again

vars == <<csv, df, country, gas_index, efficiency, emission_factor_th,
          variable_cost, start_date, end_date, df_filtered, error, fig,
          avg_css, peak_css, memo, rerun>>

----------------------------------------------------------------------------
(* Bounds of the model *)

\* calendar days are numbered 1..MaxDay
MaxDay == 3

----------------------------------------------------------------------------
(* Float arithmetic of the pandas Series operators, on exact rationals *)

Abs(x) == IF x < 0 THEN -x ELSE x

RECURSIVE GCD(_, _)
GCD(a, b) == IF b = 0 THEN a ELSE GCD(b, a % b)

LCM(a, b) == (a \div GCD(a, b)) * b

NaN == [n |-> 0, d |-> 0]

IsNaN(x) == x.d = 0

\* the rational n/d (d > 0) in lowest terms
Norm(n, d) == LET g == GCD(Abs(n), d) IN [n |-> n \div g, d |-> d \div g]

Num(i) == [n |-> i, d |-> 1]

RAdd(a, b) ==
    IF IsNaN(a) \/ IsNaN(b) THEN NaN
    ELSE LET l == LCM(a.d, b.d)
         IN Norm(a.n * (l \div a.d) + b.n * (l \div b.d), l)

\* a - b with a missing operand treated as 0
RSubFillZero(a, b) ==
    LET x == IF IsNaN(a) THEN Num(0) ELSE a
        y == IF IsNaN(b) THEN Num(0) ELSE b
        l == LCM(x.d, y.d)
    IN Norm(x.n * (l \div x.d) - y.n * (l \div y.d), l)

\* a - b; NaN if either operand is NaN
RSub(a, b) ==
    IF IsNaN(a) \/ IsNaN(b) THEN NaN
    ELSE LET l == LCM(a.d, b.d)
         IN Norm(a.n * (l \div a.d) - b.n * (l \div b.d), l)

RMul(a, b) ==
    IF IsNaN(a) \/ IsNaN(b) THEN NaN
    ELSE Norm(a.n * b.n, a.d * b.d)

\* a / b for b # 0 (the script never divides by anything but efficiency)
RDiv(a, b) ==
    IF IsNaN(a) \/ IsNaN(b) THEN NaN
    ELSE CASE b.n > 0 -> Norm(a.n * b.d, a.d * b.n)
           [] b.n < 0 -> Norm(-(a.n * b.d), a.d * (-b.n))

\* round(x, 2) of a float: the nearest multiple of 0.01, ties to even;
\* NaN stays NaN
Round2(x) ==
    IF IsNaN(x) THEN NaN
    ELSE LET q == (100 * x.n) \div x.d
             r == (100 * x.n) % x.d
             k == CASE 2 * r < x.d -> q
                    [] 2 * r > x.d -> q + 1
                    [] OTHER -> IF q % 2 = 0 THEN q ELSE q + 1
         IN Norm(k, 100)

\* f"{x}" of a rounded float
Shown(x) == IF IsNaN(x) THEN [kind |-> "nan", value |-> NaN]
            ELSE [kind |-> "number", value |-> x]

NotShown == [kind |-> "absent", value |-> NaN]

----------------------------------------------------------------------------
(* The dataset file *)

Markets == {"FR", "BE"}

\* two of the nine indices the selectbox offers
GasIndices == {"PEG", "TTF"}

Carbon == "EUA Prices"

AllColumns == Markets \cup GasIndices \cup {Carbon}

\* pd.to_datetime("2025-04-01").date(), as a day number of the model
FloorDate == 2

\* "HH:MM" as minutes since midnight
TimeOfDay(h, m) == h * 60 + m

PeakStart == TimeOfDay(8, 0)

PeakEnd == TimeOfDay(20, 0)

\* clock times at which a file samples each of its days
Patterns == { {PeakStart - 1, PeakEnd + 1},
              {PeakStart - 1, PeakStart, PeakEnd, PeakEnd + 1},
              {TimeOfDay(12, 0)} }

RECURSIVE SortedSeq(_)
SortedSeq(S) ==
    IF S = {} THEN <<>>
    ELSE LET m == CHOOSE x \in S : \A y \in S : x <= y
         IN <<m>> \o SortedSeq(S \ {m})

\* the timestamps of a file, strictly increasing
Stamps(days, pat) ==
    LET ds == SortedSeq(days)
        ms == SortedSeq(pat)
    IN [k \in 1..(Len(ds) * Len(ms)) |->
            [date |-> ds[((k - 1) \div Len(ms)) + 1],
             minute |-> ms[((k - 1) % Len(ms)) + 1]]]

\* the price a file holds for a column at a timestamp
Price(col, ts) ==
    LET t == ts.minute
        slot == CASE t < PeakStart -> 1
                  [] t = PeakStart -> 2
                  [] t > PeakStart /\ t < PeakEnd -> 3
                  [] t = PeakEnd -> 4
                  [] OTHER -> 5
        shift == 30 * (ts.date - FloorDate)
    IN CASE col = "FR" -> <<51, 100, 96, 104, 57>>[slot] - shift
         [] col = "BE" -> <<60, 90, 88, 93, 64>>[slot] - shift
         [] col = "PEG" -> <<20, 30, 28, 31, 22>>[slot]
         [] col = "TTF" -> <<25, 32, 29, 33, 26>>[slot]
         [] col = Carbon -> <<50, 80, 80, 80, 80>>[slot]

NoStamp == [date |-> 0, minute |-> 0]

\* what is wrong with a file: nothing, one column absent, or one empty cell
\* at the first or last sample of its last day
Defects(days, pat) ==
    LET last == CHOOSE x \in days : \A y \in days : y <= x
        lo == CHOOSE x \in pat : \A y \in pat : x <= y
        hi == CHOOSE x \in pat : \A y \in pat : y <= x
    IN {[kind |-> "none", col |-> "", at |-> NoStamp]}
       \cup {[kind |-> "absent", col |-> c, at |-> NoStamp] :
                c \in {"BE", "TTF", Carbon}}
       \cup {[kind |-> "gap", col |-> c, at |-> [date |-> last, minute |-> m]] :
                c \in {"FR", "PEG", Carbon}, m \in {lo, hi}}

\* a CSV file: its header and its lines; a cell is a number or empty
CsvFile(days, pat, defect) ==
    LET cols == IF defect.kind = "absent" THEN AllColumns \ {defect.col}
                ELSE AllColumns
        st == Stamps(days, pat)
    IN [header |-> {"Datetime"} \cup cols,
        lines |-> [k \in 1..Len(st) |->
            [Datetime |-> st[k],
             cells |-> [c \in cols |->
                IF defect.kind = "gap" /\ defect.col = c /\ defect.at = st[k]
                THEN [empty |-> TRUE, number |-> 0]
                ELSE [empty |-> FALSE, number |-> Price(c, st[k])]]]]]

\* the sets of days a file may cover: the calendar with at most one day
\* missing; a file reaches FloorDate, so that the date picker's min_value is
\* not after its max_value
ValidDays ==
    {ds \in {(1..MaxDay) \ hole : hole \in {{}} \cup {{x} : x \in 1..MaxDay}} :
        \E dy \in ds : dy >= FloorDate}

\* the files the model starts from
Files ==
    UNION {{CsvFile(ds, pat, defect) : defect \in Defects(ds, pat)} :
              ds \in ValidDays, pat \in Patterns}

\* pd.read_csv(..., parse_dates=["Datetime"]) then set_index("Datetime"):
\* the timestamp becomes the index, an empty cell becomes NaN
ReadCsv(file) ==
    [cols |-> file.header \ {"Datetime"},
     rows |-> [k \in 1..Len(file.lines) |->
        [ts |-> file.lines[k].Datetime,
         v |-> [c \in file.header \ {"Datetime"} |->
                  IF file.lines[k].cells[c].empty THEN NaN
                  ELSE Num(file.lines[k].cells[c].number)]]]]

----------------------------------------------------------------------------
(* Dataframe and Series operations *)

\* boolean mask of the rows whose calendar date is in [s, e)
DateMaskOpenEnd(frame, s, e) ==
    [i \in 1..Len(frame.rows) |->
        frame.rows[i].ts.date >= s /\ frame.rows[i].ts.date < e]

\* (df.index.date >= start_date) & (df.index.date <= end_date)
DateMask(frame, s, e) ==
    [i \in 1..Len(frame.rows) |->
        frame.rows[i].ts.date >= s /\ frame.rows[i].ts.date <= e]

RECURSIVE Keep(_, _, _)
Keep(rows, mask, i) ==
    IF i > Len(rows) THEN <<>>
    ELSE (IF mask[i] THEN <<rows[i]>> ELSE <<>>) \o Keep(rows, mask, i + 1)

\* frame[mask].copy(): a new frame of the rows the mask keeps, in order
BoolIndex(frame, mask) == [cols |-> frame.cols, rows |-> Keep(frame.rows, mask, 1)]

\* a lookup that yields an all-NaN column for an absent label
ColumnOrNaN(frame, c) ==
    [raised |-> FALSE,
     values |-> [i \in 1..Len(frame.rows) |->
                    IF c \in frame.cols THEN frame.rows[i].v[c] ELSE NaN]]

\* frame[c]: the column as a Series; KeyError if the frame has no such column
Column(frame, c) ==
    IF c \in frame.cols
    THEN [raised |-> FALSE, values |-> [i \in 1..Len(frame.rows) |-> frame.rows[i].v[c]]]
    ELSE [raised |-> TRUE, values |-> <<>>]

Raised == [raised |-> TRUE, values |-> <<>>]

\* a - b of two Series on the same index; an exception raised while
\* evaluating an operand propagates
SeriesSub(a, b) ==
    IF a.raised \/ b.raised THEN Raised
    ELSE [raised |-> FALSE,
          values |-> [i \in 1..Len(a.values) |-> RSub(a.values[i], b.values[i])]]

\* a / x
SeriesDivScalar(a, x) ==
    IF a.raised THEN Raised
    ELSE [raised |-> FALSE,
          values |-> [i \in 1..Len(a.values) |-> RDiv(a.values[i], x)]]

\* a * x
SeriesMulScalar(a, x) ==
    IF a.raised THEN Raised
    ELSE [raised |-> FALSE,
          values |-> [i \in 1..Len(a.values) |-> RMul(a.values[i], x)]]

\* a Series left as it is
SeriesKeep(a, x) == a

\* a - x
SeriesSubScalar(a, x) ==
    IF a.raised THEN Raised
    ELSE [raised |-> FALSE,
          values |-> [i \in 1..Len(a.values) |-> RSub(a.values[i], x)]]

ClipLower(x) == IF IsNaN(x) THEN NaN ELSE IF x.n < 0 THEN Num(0) ELSE x

ClipUpper(x) == IF IsNaN(x) THEN NaN ELSE IF x.n > 0 THEN Num(0) ELSE x

\* the spread with negative values replaced by 0
ComputeCSSClipped(f, market, gas, eff, ef, vc) ==
    LET s == SeriesSubScalar(
                SeriesSub(
                    SeriesSub(Column(f, market), SeriesDivScalar(Column(f, gas), eff)),
                    SeriesMulScalar(Column(f, Carbon), RDiv(ef, eff))),
                vc)
    IN IF s.raised THEN Raised
       ELSE [raised |-> FALSE,
             values |-> [i \in 1..Len(s.values) |-> ClipLower(s.values[i])]]

\* df_filtered[country] - df_filtered[gas_index] / efficiency
\*   - df_filtered["EUA Prices"] * (emission_factor_th / efficiency) - variable_cost
ComputeCSS(f, market, gas, eff, ef, vc) ==
    SeriesSubScalar(
        SeriesSub(
            SeriesSub(Column(f, market), SeriesDivScalar(Column(f, gas), eff)),
            SeriesMulScalar(Column(f, Carbon), RDiv(ef, eff))),
        vc)

\* frame[name] = series
SetColumn(frame, name, series) ==
    [cols |-> frame.cols \cup {name},
     rows |-> [i \in 1..Len(frame.rows) |->
        [ts |-> frame.rows[i].ts,
         v |-> [c \in frame.cols \cup {name} |->
                  IF c = name THEN series.values[i] ELSE frame.rows[i].v[c]]]]]

\* the column written to the module-level frame as well
AssignCSSToGlobal(d, f, css) ==
    [df |-> SetColumn(f, "CSS", css), df_filtered |-> SetColumn(f, "CSS", css)]

\* df_filtered = df[mask].copy(); df_filtered["CSS"] = ...: the column goes
\* to the copy, the module-level frame d is left as it was
AssignCSS(d, f, css) == [df |-> d, df_filtered |-> SetColumn(f, "CSS", css)]

\* the window without its last minute
BetweenTimeOpenEnd(frame, lo, hi) ==
    BoolIndex(frame, [i \in 1..Len(frame.rows) |->
        frame.rows[i].ts.minute >= lo /\ frame.rows[i].ts.minute < hi])

\* frame.between_time(lo, hi), both ends included
BetweenTime(frame, lo, hi) ==
    BoolIndex(frame, [i \in 1..Len(frame.rows) |->
        frame.rows[i].ts.minute >= lo /\ frame.rows[i].ts.minute <= hi])

RECURSIVE SumFrom(_, _)
SumFrom(values, i) ==
    IF i > Len(values) THEN Num(0)
    ELSE IF IsNaN(values[i]) THEN SumFrom(values, i + 1)
         ELSE RAdd(values[i], SumFrom(values, i + 1))

\* Series.mean(): the mean of the values that are not NaN; NaN if there is none
Mean(values) ==
    LET count == Cardinality({i \in 1..Len(values) : ~IsNaN(values[i])})
    IN IF count = 0 THEN NaN ELSE RDiv(SumFrom(values, 1), Num(count))

NoFig == [drawn |-> FALSE, x |-> <<>>, line |-> <<>>, positive |-> <<>>, negative |-> <<>>]

\* the Scatter line and the two Bar traces
Figure(g) ==
    [drawn |-> TRUE,
     x |-> [i \in 1..Len(g.rows) |-> g.rows[i].ts],
     line |-> [i \in 1..Len(g.rows) |-> g.rows[i].v["CSS"]],
     positive |-> [i \in 1..Len(g.rows) |-> ClipLower(g.rows[i].v["CSS"])],
     negative |-> [i \in 1..Len(g.rows) |-> ClipUpper(g.rows[i].v["CSS"])]]

----------------------------------------------------------------------------
(* One execution of the script *)

\* the slider value taken as the efficiency without the division
EfficiencyPercent(pct) == Num(pct)

\* st.sidebar.slider("Efficiency (%)", ...) / 100
Efficiency(pct) == Norm(pct, 100)

\* positions of the efficiency slider: its minimum, its default, its maximum
EffPercents == {30, 50, 65}

\* positions of the emission-factor slider, among them its default 0.090
EmissionFactors == {Norm(90, 1000), Norm(250, 1000)}

\* entries of the variable-cost field, among them its default 2.0
VariableCosts == {Norm(200, 100), Norm(350, 100), Norm(-150, 100)}

MinOf(S) == CHOOSE x \in S : \A y \in S : x <= y

MaxOf(S) == CHOOSE x \in S : \A y \in S : y <= x

Dates(d) == {d.rows[i].ts.date : i \in 1..Len(d.rows)}

\* min_date = max(min(dates), 2025-04-01)
min_date(d) == IF MinOf(Dates(d)) > FloorDate THEN MinOf(Dates(d)) ELSE FloorDate

\* max_date = max(dates)
max_date(d) == MaxOf(Dates(d))

Widgets ==
    [country |-> country, gas_index |-> gas_index, efficiency |-> efficiency,
     emission_factor_th |-> emission_factor_th, variable_cost |-> variable_cost,
     start_date |-> start_date, end_date |-> end_date]

\* the widget values of the first execution
Defaults(file) ==
    [country |-> "FR", gas_index |-> "PEG", efficiency |-> Efficiency(50),
     emission_factor_th |-> Norm(90, 1000), variable_cost |-> Norm(200, 100),
     start_date |-> min_date(ReadCsv(file)), end_date |-> max_date(ReadCsv(file))]

\* the script from top to bottom with widget values w
ScriptRun(file, w) ==
    LET d == ReadCsv(file)
        f == BoolIndex(d, DateMask(d, w.start_date, w.end_date))
        css == ComputeCSS(f, w.country, w.gas_index, w.efficiency,
                          w.emission_factor_th, w.variable_cost)
    IN IF css.raised
       THEN [df |-> d, df_filtered |-> f, error |-> "KeyError", fig |-> NoFig,
             avg_css |-> NotShown, peak_css |-> NotShown]
       ELSE LET a == AssignCSS(d, f, css)
                g == a.df_filtered
            IN [df |-> a.df, df_filtered |-> g, error |-> "none",
                fig |-> Figure(g),
                avg_css |-> Shown(Round2(Mean(Column(g, "CSS").values))),
                peak_css |-> Shown(Round2(Mean(
                    Column(BetweenTime(g, PeakStart, PeakEnd), "CSS").values)))]

Outputs ==
    [df_filtered |-> df_filtered, error |-> error, fig |-> fig,
     avg_css |-> avg_css, peak_css |-> peak_css]

OutputsOf(out) ==
    [df_filtered |-> out.df_filtered, error |-> out.error, fig |-> out.fig,
     avg_css |-> out.avg_css, peak_css |-> out.peak_css]

NoOutputs ==
    [df_filtered |-> [cols |-> {}, rows |-> <<>>], error |-> "none", fig |-> NoFig,
     avg_css |-> NotShown, peak_css |-> NotShown]

\* the history kept of the runs with the widget values mm.w: what the first
\* of them showed, and whether a run with other values has followed it
Remember(mm, w, shown) ==
    IF w = mm.w
    THEN IF mm.phase = "waiting" THEN [mm EXCEPT !.out = shown, !.phase = "recorded"]
         ELSE mm
    ELSE IF mm.phase = "recorded" THEN [mm EXCEPT !.phase = "left"]
         ELSE mm

\* a widget change: the new values are kept and the script runs again
Execute(w) ==
    \E out \in {ScriptRun(csv, w)} :
       /\ country' = w.country
       /\ gas_index' = w.gas_index
       /\ efficiency' = w.efficiency
       /\ emission_factor_th' = w.emission_factor_th
       /\ variable_cost' = w.variable_cost
       /\ start_date' = w.start_date
       /\ end_date' = w.end_date
       /\ df' = out.df
       /\ df_filtered' = out.df_filtered
       /\ error' = out.error
       /\ fig' = out.fig
       /\ avg_css' = out.avg_css
       /\ peak_css' = out.peak_css
       /\ memo' = Remember(memo, w, OutputsOf(out))
       /\ rerun' = TRUE
       /\ UNCHANGED csv

\* the first run of the script over a file, with the default widget values;
\* the history follows the runs with the widget values probe
FirstRun(file, probe) ==
    /\ csv = file
    /\ \E w \in {Defaults(file)} : \E out \in {ScriptRun(file, w)} :
          /\ country = w.country
          /\ gas_index = w.gas_index
          /\ efficiency = w.efficiency
          /\ emission_factor_th = w.emission_factor_th
          /\ variable_cost = w.variable_cost
          /\ start_date = w.start_date
          /\ end_date = w.end_date
          /\ df = out.df
          /\ df_filtered = out.df_filtered
          /\ error = out.error
          /\ fig = out.fig
          /\ avg_css = out.avg_css
          /\ peak_css = out.peak_css
          /\ memo = Remember([w |-> probe, out |-> NoOutputs, phase |-> "waiting"],
                             w, OutputsOf(out))
          /\ rerun = FALSE

Init == \E file \in Files : FirstRun(file, Defaults(file))

SelectCountry ==
    \E c \in Markets \ {country} : Execute([Widgets EXCEPT !.country = c])

SelectGasIndex ==
    \E g \in GasIndices \ {gas_index} : Execute([Widgets EXCEPT !.gas_index = g])

SlideEfficiency ==
    \E p \in EffPercents :
        /\ Efficiency(p) # efficiency
        /\ Execute([Widgets EXCEPT !.efficiency = Efficiency(p)])

SlideEmissionFactor ==
    \E e \in EmissionFactors \ {emission_factor_th} :
        Execute([Widgets EXCEPT !.emission_factor_th = e])

InputVariableCost ==
    \E v \in VariableCosts \ {variable_cost} :
        Execute([Widgets EXCEPT !.variable_cost = v])

\* the date picker offers the dates from min_date to max_date and returns
\* the two picked dates in order
PickDateRange ==
    \E s \in min_date(df)..max_date(df) :
        \E e \in s..max_date(df) :
            /\ <<s, e>> # <<start_date, end_date>>
            /\ Execute([Widgets EXCEPT !.start_date = s, !.end_date = e])

Next ==
    \/ SelectCountry
    \/ SelectGasIndex
    \/ SlideEfficiency
    \/ SlideEmissionFactor
    \/ InputVariableCost
    \/ PickDateRange

Spec == Init /\ [][Next]_vars

\* the files sampled once a day, at noon
NoonFiles ==
    UNION {{CsvFile(ds, {TimeOfDay(12, 0)}, defect) :
                defect \in Defects(ds, {TimeOfDay(12, 0)})} : ds \in ValidDays}

\* widget values whose runs the history follows: the defaults, every widget
\* moved away from its default, and the other market on the last day alone
Probes(file) ==
    {Defaults(file),
     [country |-> "BE", gas_index |-> "TTF", efficiency |-> Efficiency(30),
      emission_factor_th |-> Norm(250, 1000), variable_cost |-> Norm(-150, 100),
      start_date |-> min_date(ReadCsv(file)), end_date |-> min_date(ReadCsv(file))],
     [Defaults(file) EXCEPT !.country = "BE",
                            !.start_date = max_date(ReadCsv(file))]}

InitRepeat == \E file \in NoonFiles : \E probe \in Probes(file) : FirstRun(file, probe)

\* the same runs, with the history following any of the probes
SpecRepeat == InitRepeat /\ [][Next]_vars

----------------------------------------------------------------------------
(* Properties *)

Rows == df_filtered.rows

CssAt(i) == Rows[i].v["CSS"]

Present(i) == ~IsNaN(CssAt(i))

InPeak(i) == Rows[i].ts.minute >= PeakStart /\ Rows[i].ts.minute <= PeakEnd

\* a common denominator of every CSS value of the run
Den == efficiency.n * emission_factor_th.d * variable_cost.d

\* C1: at every timestamp of the filtered frame whose three prices are
\* present, the CSS column holds marketPrice - gasPrice/efficiency
\* - carbonPrice*(emissionFactor/efficiency) - variableCost, unclamped and
\* unrounded; market 100, gas 30, carbon 80, factor 0.09, cost 2 give 23.6 at
\* efficiency 0.5 and -26 at efficiency 0.3
CssMatchesFormula ==
    error = "none" =>
        /\ df_filtered.cols = df.cols \cup {"CSS"}
        /\ \A i \in 1..Len(Rows) :
            LET m == Rows[i].v[country]
                g == Rows[i].v[gas_index]
                c == Rows[i].v[Carbon]
                x == CssAt(i)
            IN (~IsNaN(m) /\ ~IsNaN(g) /\ ~IsNaN(c)) =>
                /\ m.d = 1 /\ g.d = 1 /\ c.d = 1
                /\ ~IsNaN(x)
                /\ x.n * Den =
                     x.d * ( m.n * Den
                             - g.n * efficiency.d * emission_factor_th.d * variable_cost.d
                             - c.n * emission_factor_th.n * efficiency.d * variable_cost.d
                             - variable_cost.n * efficiency.n * emission_factor_th.d )
                /\ ( /\ m.n = 100 /\ g.n = 30 /\ c.n = 80
                     /\ 100 * emission_factor_th.n = 9 * emission_factor_th.d
                     /\ variable_cost.n = 2 * variable_cost.d )
                   => /\ 2 * efficiency.n = efficiency.d => 10 * x.n = 236 * x.d
                      /\ 10 * efficiency.n = 3 * efficiency.d => x.n = (-26) * x.d

\* a run whose CSS column holds the 23.6 of the scenario, a zero and a
\* negative value
CssSignsSeen ==
    /\ error = "none"
    /\ \E i \in 1..Len(Rows) : Present(i) /\ 10 * CssAt(i).n = 236 * CssAt(i).d
    /\ \E i \in 1..Len(Rows) : Present(i) /\ CssAt(i).n = 0
    /\ \E i \in 1..Len(Rows) : Present(i) /\ CssAt(i).n < 0

RECURSIVE ScaledSum(_)
ScaledSum(I) ==
    IF I = {} THEN 0
    ELSE LET i == CHOOSE j \in I : TRUE
         IN CssAt(i).n * (Den \div CssAt(i).d) + ScaledSum(I \ {i})

\* shown is a number of two decimals within half a hundredth of the
\* arithmetic mean of the CSS values at the rows I
IsRoundedMeanOf(shown, I) ==
    /\ shown.kind = "number"
    /\ 100 % shown.value.d = 0
    /\ LET k == shown.value.n * (100 \div shown.value.d)
           n == Cardinality(I)
       IN 2 * Abs(100 * ScaledSum(I) - k * n * Den) <= n * Den

\* C2: the average shown is the mean of all values of the filtered series and
\* the peak average is the mean of the values whose clock time is in
\* [08:00, 20:00], ends included, each rounded to two decimals
AveragesAreMeans ==
    error = "none" =>
        LET all == {i \in 1..Len(Rows) : Present(i)}
            peak == {i \in 1..Len(Rows) : Present(i) /\ InPeak(i)}
        IN /\ all # {} => IsRoundedMeanOf(avg_css, all)
           /\ peak # {} => IsRoundedMeanOf(peak_css, peak)

\* a run with samples at 07:59, 08:00, 20:00 and 20:01 whose two averages
\* differ
PeakBoundariesSeen ==
    /\ error = "none"
    /\ \A t \in {PeakStart - 1, PeakStart, PeakEnd, PeakEnd + 1} :
          \E i \in 1..Len(Rows) : Present(i) /\ Rows[i].ts.minute = t
    /\ avg_css.kind = "number" /\ peak_css.kind = "number"
    /\ avg_css # peak_css

\* C3: where the market, gas or carbon price is missing, the CSS value is
\* missing too
MissingPropagates ==
    error = "none" =>
        \A i \in 1..Len(Rows) :
            ( \/ IsNaN(Rows[i].v[country])
              \/ IsNaN(Rows[i].v[gas_index])
              \/ IsNaN(Rows[i].v[Carbon]) ) => IsNaN(CssAt(i))

\* a run over a row whose gas price is missing, next to a row that has all
\* its prices
GapSeen ==
    /\ error = "none"
    /\ \E i \in 1..Len(Rows) : IsNaN(Rows[i].v[gas_index]) /\ IsNaN(CssAt(i))
    /\ \E i \in 1..Len(Rows) : Present(i)

\* C4: with rows in the filtered frame but none in the peak window, the peak
\* average shown is a "no data" signal, neither 0 nor NaN
PeakNoDataSignalled ==
    ( /\ error = "none"
      /\ Len(Rows) > 0
      /\ \A i \in 1..Len(Rows) : ~InPeak(i) )
    => peak_css.kind = "no data"

\* C5: a date range that selects no row ends without an exception and shows
\* "no data" for both averages
EmptyRangeShowsNoData ==
    ( /\ Len(Rows) = 0
      /\ {country, gas_index, Carbon} \subseteq df.cols )
    => /\ error = "none"
       /\ avg_css.kind = "no data"
       /\ peak_css.kind = "no data"

\* C6: when the column of the selected market, of the selected gas index or
\* the carbon column is absent from the dataset, the run ends with an error
\* shown to the user: no CSS column, no chart, no averages
AbsentColumnStopsRun ==
    ~({country, gas_index, Carbon} \subseteq df.cols) =>
        /\ error = "KeyError"
        /\ "CSS" \notin df_filtered.cols
        /\ ~fig.drawn
        /\ avg_css = NotShown
        /\ peak_css = NotShown

\* a run that selected a gas index the dataset has no column for
AbsentColumnSeen == rerun /\ gas_index \notin df.cols /\ error = "KeyError"

\* C7: the efficiency of every run is the slider percentage over 100, in
\* [0.30, 0.65], hence strictly positive
EfficiencyInRange ==
    /\ efficiency.d > 0
    /\ efficiency.n > 0
    /\ 30 * efficiency.d <= 100 * efficiency.n
    /\ 100 * efficiency.n <= 65 * efficiency.d

\* a run that computed the spread at the slider's minimum
MinEfficiencySeen ==
    /\ error = "none"
    /\ 10 * efficiency.n = 3 * efficiency.d
    /\ \E i \in 1..Len(Rows) : Present(i)

\* C8: when only the variable cost changes between two runs, every CSS value
\* moves by exactly the opposite of the change
VariableCostShifts ==
    [][ ( /\ variable_cost' # variable_cost
          /\ <<country', gas_index', efficiency', emission_factor_th',
               start_date', end_date'>>
             = <<country, gas_index, efficiency, emission_factor_th,
                 start_date, end_date>>
          /\ error = "none" /\ error' = "none" )
        => /\ Len(df_filtered'.rows) = Len(Rows)
           /\ \A i \in 1..Len(Rows) :
                LET x == CssAt(i)
                    y == df_filtered'.rows[i].v["CSS"]
                IN /\ df_filtered'.rows[i].ts = Rows[i].ts
                   /\ IsNaN(y) <=> IsNaN(x)
                   /\ ~IsNaN(x) =>
                        (y.n * x.d - x.n * y.d) * variable_cost.d * variable_cost'.d
                        = (variable_cost.n * variable_cost'.d
                           - variable_cost'.n * variable_cost.d) * x.d * y.d ]_vars

\* a run after the variable cost was changed from its default
VariableCostChanged ==
    /\ rerun
    /\ error = "none"
    /\ variable_cost # Norm(200, 100)
    /\ \E i \in 1..Len(Rows) : Present(i)

Before(s, t) == s.date < t.date \/ (s.date = t.date /\ s.minute < t.minute)

\* C9: the filtered frame holds exactly the rows of the dataset whose date is
\* in [start_date, end_date], in the dataset's order, and filtering it to
\* the dates of its own first and last row gives it back
FilterIsExactAndIdempotent ==
    LET src == ReadCsv(csv).rows
        InRange(r) == r.ts.date >= start_date /\ r.ts.date <= end_date
    IN /\ \A j \in 1..Len(Rows) :
            /\ InRange(Rows[j])
            /\ \E i \in 1..Len(src) :
                  /\ src[i].ts = Rows[j].ts
                  /\ \A c \in DOMAIN src[i].v : Rows[j].v[c] = src[i].v[c]
       /\ \A i \in 1..Len(src) :
            InRange(src[i]) => \E j \in 1..Len(Rows) : Rows[j].ts = src[i].ts
       /\ \A j \in 1..Len(Rows) : \A k \in 1..Len(Rows) :
            j < k => Before(Rows[j].ts, Rows[k].ts)
       /\ Len(Rows) > 0 =>
            BoolIndex(df_filtered,
                      DateMask(df_filtered, Rows[1].ts.date, Rows[Len(Rows)].ts.date))
            = df_filtered

\* a run whose range keeps some rows of the dataset and drops others
ProperRangeSeen ==
    /\ rerun
    /\ Len(Rows) > 0
    /\ Len(Rows) < Len(df.rows)
    /\ start_date < end_date

\* C10: the loaded dataset is what was read from the file, without a CSS
\* column, and a run with the widget values of an earlier run shows what that
\* run showed, whatever ran in between
DatasetUntouchedRunsRepeatable ==
    /\ df = ReadCsv(csv)
    /\ "CSS" \notin df.cols
    /\ (memo.phase # "waiting" /\ Widgets = memo.w) => Outputs = memo.out

\* a run back at widget values other than the defaults, after runs with
\* other values
BackAtEarlierValues ==
    /\ memo.phase = "left"
    /\ Widgets = memo.w
    /\ memo.w # Defaults(csv)
    /\ error = "none"
    /\ Len(Rows) > 0

====
